---- MODULE Spec2Model ----
(***************************************************************************)
(* A model of the finite state machine engine of fsm.go: NewFSM builds the *)
(* two-level transition table from an ordered list of TransEdge values and *)
(* Emit dispatches one event against it.  The callbacks (guards and the    *)
(* ignore hook) are the caller's code: a call of one is a step of its own, *)
(* between the part of Emit before it and the part after it.               *)
(***************************************************************************)
EXTENDS Integers, Sequences, FiniteSets, TLC

\* ------------------------------------------------------------------ bounds
\* Longest transitions list handed to NewFSM.
MaxEdges == 2

\* Deepest nesting of Emit calls (an Emit called from inside a callback).
MaxDepth == 2

\* ------------------------------------------------------------- data model
\* type StateNode int: the state identifiers the caller uses.
StateNode == {1, 2}

\* type EventType int: the event identifiers the caller uses.
EventType == {1, 2}

\* The nil Callback and the nil error.
Nil == "nil"

\* A guard that decides from the event alone (it returns the event's payload).
Pure == "pure"

\* A callback that reads and writes state of the caller's: what it returns
\* does not depend on the event alone.
Impure == "impure"

\* type Callback func(Event) bool: nil, or one of the two kinds of function.
Callback == {Nil, Pure, Impure}

\* type Event interface: Type() is the field type, Unwrap() the payload.
Event == [type : EventType, payload : BOOLEAN]

Type(e) == e.type

Unwrap(e) == e.payload

\* type TransEdge struct.
TransEdge == [From : StateNode, Event : EventType, To : StateNode, Callback : Callback]

\* The values of the edges argument of NewFSM: every list of at most MaxEdges edges.
EdgeLists == UNION {[1..n -> TransEdge] : n \in 0..MaxEdges}

\* The order of the keys of the table: a before b.
KeyBefore(a, b) ==
    \/ a.From < b.From
    \/ a.From = b.From /\ a.Event < b.Event

\* One list for every table NewFSM builds from a list of EdgeLists: the lists
\* whose (From, Event) pairs differ, each in the order of its keys.
TableLists == {l \in EdgeLists : \A i \in 1..(Len(l) - 1) : KeyBefore(l[i], l[i + 1])}

\* The values of the ignore argument of NewFSM.
IgnoreHooks == {Nil, Impure}

\* make(map[...]...): the map with no key.
EmptyMap == [k \in {} |-> k]

\* m[k] = v on a Go map.
MapPut(f, k, v) == [x \in (DOMAIN f) \cup {k} |-> IF x = k THEN v ELSE f[x]]

\* type stateInfo struct.
StateInfo(state, cb) == [state |-> state, cb |-> cb]

\* The nil *stateMachineImpl, and a machine: type stateMachineImpl struct.
NilMachine == [nil |-> TRUE]

Machine(graph, current, ignore) ==
    [nil |-> FALSE, graph |-> graph, current |-> current, ignore |-> ignore]

\* errors.New("invalid fsm")
InvalidFsm == "invalid fsm"

VARIABLES
    args,    \* the arguments NewFSM was called with (<<>> before the call)
    m,       \* the machine NewFSM returned (NilMachine before the call and on failure)
    err,     \* the error NewFSM returned
    stack,   \* the Emit calls in progress, the innermost last: each waits in a callback
    last,    \* the Emit call that returned most recently
    twin,    \* a second machine, built by a second call of NewFSM with the same arguments
    rets,    \* the results of the latest event emitted to both: <<of m, of twin>>
    read,    \* what the latest CurrentState() call since the latest Emit call returned
    dest,    \* the destination of the latest Emit call that returned true
    ref,     \* the reference machine: one map keyed by (State, EventType) pairs
    race     \* the Emit calls of two goroutines that share the machine

vars == <<args, m, err, stack, last, twin, rets, read, dest, ref, race>>

\* The values of the variables: the fields of stateMachineImpl in m and twin,
\* the arguments and results of the calls in the others.
TypeOK ==
    /\ args \in Seq([st : StateNode, edges : EdgeLists, ignore : Callback])
    /\ Len(args) <= 2
    /\ err \in {Nil, InvalidFsm}
    /\ \A mach \in {m, twin} :
           \/ mach = NilMachine
           \/ /\ ~mach.nil
              /\ mach.current \in StateNode
              /\ mach.ignore \in Callback
              /\ DOMAIN mach.graph \subseteq StateNode
              /\ \A s \in DOMAIN mach.graph :
                     /\ DOMAIN mach.graph[s] \subseteq EventType
                     /\ DOMAIN mach.graph[s] # {}
                     /\ \A t \in DOMAIN mach.graph[s] :
                            /\ mach.graph[s][t].state \in StateNode
                            /\ mach.graph[s][t].cb \in Callback
    /\ Len(stack) <= MaxDepth
    /\ \A i \in 1..Len(stack) :
           /\ stack[i].e \in Event
           /\ stack[i].arg \in Event
           /\ stack[i].pre \in StateNode
           /\ stack[i].in \in {"guard", "ignore"}
           /\ stack[i].cb \in Callback \ {Nil}
    /\ last.returned =>
           /\ last.e \in Event
           /\ last.pre \in StateNode
           /\ last.post \in StateNode
           /\ last.ret \in BOOLEAN
           /\ last.guardCalls + last.hookCalls \in {0, 1}
    /\ rets \in Seq(BOOLEAN)
    /\ read \in Seq(StateNode)
    /\ dest \in Seq(StateNode)

\* ---------------------------------------------------------------- NewFSM
\* BuildGraph without the test of line 60: a second entry for a pair replaces
\* the first.
RECURSIVE BuildGraphLastWins(_, _, _)
BuildGraphLastWins(graph, edges, i) ==
    IF i > Len(edges)
    THEN [graph |-> graph, err |-> Nil]
    ELSE LET edge == edges[i]
             transTable == IF edge.From \in DOMAIN graph
                           THEN graph[edge.From]
                           ELSE EmptyMap
         IN  BuildGraphLastWins(
                 MapPut(graph, edge.From,
                        MapPut(transTable, edge.Event,
                               StateInfo(edge.To, edge.Callback))),
                 edges, i + 1)

\* BuildGraph with a new inner map made for every edge, whether or not the
\* state has one.
RECURSIVE BuildGraphNewInner(_, _, _)
BuildGraphNewInner(graph, edges, i) ==
    IF i > Len(edges)
    THEN [graph |-> graph, err |-> Nil]
    ELSE LET edge == edges[i]
             transTable == EmptyMap
         IN  BuildGraphNewInner(
                 MapPut(graph, edge.From,
                        MapPut(transTable, edge.Event,
                               StateInfo(edge.To, edge.Callback))),
                 edges, i + 1)

\* The loop of NewFSM over edges[i..]: the graph built, or the error.
RECURSIVE BuildGraph(_, _, _)
BuildGraph(graph, edges, i) ==
    IF i > Len(edges)
    THEN [graph |-> graph, err |-> Nil]
    ELSE LET edge == edges[i]
             transTable == IF edge.From \in DOMAIN graph
                           THEN graph[edge.From]
                           ELSE EmptyMap
         IN  IF edge.Event \in DOMAIN transTable
             THEN [graph |-> EmptyMap, err |-> InvalidFsm]
             ELSE BuildGraph(
                      MapPut(graph, edge.From,
                             MapPut(transTable, edge.Event,
                                    StateInfo(edge.To, edge.Callback))),
                      edges, i + 1)

\* NewFSMResult with the machine started at the From of the first edge instead
\* of st.
NewFSMResultFirstFrom(st, edges, ignore) ==
    LET b == BuildGraph(EmptyMap, edges, 1)
    IN  IF b.err # Nil
        THEN [m |-> NilMachine, err |-> b.err]
        ELSE [m |-> Machine(b.graph, IF edges = <<>> THEN st ELSE edges[1].From, ignore),
              err |-> Nil]

\* What NewFSM returns: (m, nil) or (nil, err).
NewFSMResult(st, edges, ignore) ==
    LET b == BuildGraph(EmptyMap, edges, 1)
    IN  IF b.err # Nil
        THEN [m |-> NilMachine, err |-> b.err]
        ELSE [m |-> Machine(b.graph, st, ignore), err |-> Nil]

\* The call NewFSM(st, edges, ignore).
NewFSM(st, edges, ignore) ==
    /\ args = <<>>
    /\ args' = <<[st |-> st, edges |-> edges, ignore |-> ignore]>>
    /\ m' = NewFSMResult(st, edges, ignore).m
    /\ err' = NewFSMResult(st, edges, ignore).err
    /\ UNCHANGED <<stack, last>>

\* ------------------------------------------------------------------ Emit
NoCall == [returned |-> FALSE]

\* CurrentState(): return m.current.
CurrentState == m.current

\* nextState, ok := m.graph[m.current][t]: ok.
HasEntry(graph, current, t) ==
    /\ current \in DOMAIN graph
    /\ t \in DOMAIN graph[current]

\* Lookup in the table of another state that has an entry for t, if there is one.
LookupOtherState(graph, current, t) ==
    IF \E s \in DOMAIN graph : s # current /\ t \in DOMAIN graph[s]
    THEN graph[CHOOSE s \in DOMAIN graph : s # current /\ t \in DOMAIN graph[s]][t]
    ELSE graph[current][t]

\* nextState, ok := m.graph[m.current][t]: nextState when ok.
Lookup(graph, current, t) == graph[current][t]

\* stateInfo{}: the zero value a failed lookup yields.
ZeroInfo == StateInfo(0, Nil)

\* InvokesIgnore with the hook dropped.
InvokesIgnoreNever(mach) == FALSE

\* if m.ignore != nil: the lookup failed and there is a hook to invoke.
InvokesIgnore(mach) == mach.ignore # Nil

\* if allowTrans != nil: the entry found carries a guard to invoke.
InvokesGuard(info) == info.cb # Nil

\* Transfer without the assignment to m.current.
TransferKeeps(mach, state) == [m |-> mach, ret |-> TRUE]

\* Transfer reporting whether the state changed instead of true.
TransferIfChanged(mach, state) ==
    [m |-> [mach EXCEPT !.current = state], ret |-> (state # mach.current)]

\* m.current = state; return true.
Transfer(mach, state) == [m |-> [mach EXCEPT !.current = state], ret |-> TRUE]

\* Reject after a lookup that left an empty table behind for a state that had
\* none, as an index expression that inserts would.
RejectInserts(mach) ==
    [m |-> [mach EXCEPT !.graph = IF mach.current \in DOMAIN mach.graph
                                  THEN mach.graph
                                  ELSE MapPut(mach.graph, mach.current, EmptyMap)],
     ret |-> FALSE]

\* return false, with m.current as it is.
Reject(mach) == [m |-> mach, ret |-> FALSE]

\* AfterGuard with the guard's answer dropped.
AfterGuardAlways(mach, info, b) == [m |-> [mach EXCEPT !.current = info.state], ret |-> TRUE]

\* AfterGuard with the assignment to m.current moved before the test.
AfterGuardMovesFirst(mach, info, b) ==
    [m |-> [mach EXCEPT !.current = info.state], ret |-> b]

\* The end of Emit after the guard returned b: if allowTrans(e) {...} else {...}.
AfterGuard(mach, info, b) == IF b THEN Transfer(mach, info.state) ELSE Reject(mach)

\* AfterIgnore returning what the hook returned.
AfterIgnoreReturnsIt(mach, b) == [m |-> mach, ret |-> b]

\* The end of Emit after the ignore hook returned b: m.ignore(e); return false.
AfterIgnore(mach, b) == Reject(mach)

\* The record of an Emit call that has returned: its event, the current state
\* when it was called, the number of times it invoked a guard and the ignore
\* hook, the event it passed to that callback and what the callback returned,
\* whether the callback called Emit itself, the result of the call and the
\* current state when it returned, and the callback it invoked (Nil for none).
Returned(e, pre, guardCalls, hookCalls, cbArg, cbRet, reentered, ret, post, cb) ==
    [returned |-> TRUE, e |-> e, pre |-> pre,
     guardCalls |-> guardCalls, hookCalls |-> hookCalls, cbArg |-> cbArg,
     cbRet |-> cbRet, reentered |-> reentered, ret |-> ret, post |-> post,
     cb |-> cb]

\* An Emit call waiting in the callback cb, which it called with the event arg:
\* in is "guard" or "ignore", info the entry found (of a guard).
Frame(e, pre, info, in, cb, arg) ==
    [e |-> e, pre |-> pre, info |-> info, in |-> in, cb |-> cb, arg |-> arg,
     reentered |-> FALSE]

\* Emit(e) from its first line to its return, or to its call of a callback;
\* stk holds the calls in progress around it.
EmitBegin(e, stk) ==
    LET t == Type(e)
        ok == HasEntry(m.graph, m.current, t)
    IN  IF ~ok
        THEN IF InvokesIgnore(m)
             THEN /\ stack' = Append(stk, Frame(e, m.current, ZeroInfo, "ignore", m.ignore, e))
                  /\ UNCHANGED <<m, last, dest>>
             ELSE LET r == Reject(m)
                  IN  /\ m' = r.m
                      /\ last' = Returned(e, m.current, 0, 0, e, FALSE, FALSE,
                                          r.ret, r.m.current, Nil)
                      /\ stack' = stk
                      /\ UNCHANGED dest
        ELSE LET nextState == Lookup(m.graph, m.current, t)
             IN  IF InvokesGuard(nextState)
                 THEN /\ stack' = Append(stk, Frame(e, m.current, nextState, "guard",
                                                    nextState.cb, e))
                      /\ UNCHANGED <<m, last, dest>>
                 ELSE LET r == Transfer(m, nextState.state)
                      IN  /\ m' = r.m
                          /\ last' = Returned(e, m.current, 0, 0, e, FALSE, FALSE,
                                              r.ret, r.m.current, Nil)
                          /\ stack' = stk
                          /\ dest' = <<nextState.state>>

\* The caller calls m.Emit(e), no other call being in progress.
EmitCall(e) ==
    /\ ~m.nil
    /\ stack = <<>>
    /\ EmitBegin(e, stack)
    /\ read' = <<>>
    /\ UNCHANGED <<args, err, twin, rets, ref, race>>

\* The values a callback of kind cb may return for the event e.
CallbackResults(cb, e) == IF cb = Pure THEN {Unwrap(e)} ELSE BOOLEAN

\* The callback the innermost Emit call waits in returns b, and that Emit call
\* runs to its return.
CallbackReturn(b) ==
    /\ stack # <<>>
    /\ LET f == stack[Len(stack)]
           r == IF f.in = "guard" THEN AfterGuard(m, f.info, b) ELSE AfterIgnore(m, b)
       IN  /\ b \in CallbackResults(f.cb, f.arg)
           /\ stack' = SubSeq(stack, 1, Len(stack) - 1)
           /\ m' = r.m
           /\ last' = Returned(f.e, f.pre,
                               IF f.in = "guard" THEN 1 ELSE 0,
                               IF f.in = "ignore" THEN 1 ELSE 0,
                               f.arg, b, f.reentered, r.ret, r.m.current, f.cb)
           /\ dest' = IF r.ret THEN <<f.info.state>> ELSE dest
    /\ UNCHANGED <<args, err, twin, rets, read, ref, race>>

\* A callback that is running calls m.Emit(e) itself, on the machine it was
\* called by: only a callback with effects of its own does.
Reenter(e) ==
    /\ stack # <<>>
    /\ Len(stack) < MaxDepth
    /\ stack[Len(stack)].cb = Impure
    /\ EmitBegin(e, [stack EXCEPT ![Len(stack)].reentered = TRUE])
    /\ UNCHANGED <<args, err, twin, rets, read, ref, race>>

\* The callback Emit(e) invokes on the machine mach: Nil when it invokes none.
InvokedCallback(mach, e) ==
    IF HasEntry(mach.graph, mach.current, Type(e))
    THEN Lookup(mach.graph, mach.current, Type(e)).cb
    ELSE mach.ignore

\* Emit(e) on the machine mach from its first line to its return, b being what
\* the callback it invokes returns: the machine afterwards and the result.
Emit(mach, e, b) ==
    LET t == Type(e)
        ok == HasEntry(mach.graph, mach.current, t)
    IN  IF ~ok
        THEN IF InvokesIgnore(mach) THEN AfterIgnore(mach, b) ELSE Reject(mach)
        ELSE LET nextState == Lookup(mach.graph, mach.current, t)
             IN  IF InvokesGuard(nextState)
                 THEN AfterGuard(mach, nextState, b)
                 ELSE Transfer(mach, nextState.state)

\* The caller emits e to both machines, m first: b1 and b2 are what the
\* callbacks return that the two calls invoke.
EmitBoth(e, b1, b2) ==
    /\ ~m.nil
    /\ ~twin.nil
    /\ b1 \in CallbackResults(InvokedCallback(m, e), e)
    /\ b2 \in CallbackResults(InvokedCallback(twin, e), e)
    /\ m' = Emit(m, e, b1).m
    /\ twin' = Emit(twin, e, b2).m
    /\ rets' = <<Emit(m, e, b1).ret, Emit(twin, e, b2).ret>>
    /\ UNCHANGED <<args, err, stack, last, read, dest, ref, race>>

\* The reference machine of a list of edges with no duplicate pair: one map
\* from the (From, Event) pairs of the list to their To and Callback, and a
\* current state.
RefTable(edges) ==
    [k \in {<<edges[i].From, edges[i].Event>> : i \in 1..Len(edges)} |->
        LET i == CHOOSE j \in 1..Len(edges) : <<edges[j].From, edges[j].Event>> = k
        IN  [To |-> edges[i].To, Callback |-> edges[i].Callback]]

RefMachine(st, edges) == [nil |-> FALSE, table |-> RefTable(edges), current |-> st]

\* The reference machine takes the transition for e in state s, its guard
\* answering b: there is an entry for (s, e.Type()) with no guard or with a
\* guard that returns true.
RefMoves(table, s, e, b) ==
    /\ <<s, Type(e)>> \in DOMAIN table
    /\ table[<<s, Type(e)>>].Callback = Nil \/ b

\* delta(s, e) of the reference machine.
Delta(table, s, e, b) == IF RefMoves(table, s, e, b) THEN table[<<s, Type(e)>>].To ELSE s

\* The caller emits e to the machine and to the reference machine, b being
\* what the callback returns that Emit invokes.
EmitWithRef(e, b) ==
    /\ ~m.nil
    /\ ~ref.nil
    /\ b \in CallbackResults(InvokedCallback(m, e), e)
    /\ m' = Emit(m, e, b).m
    /\ ref' = [ref EXCEPT !.current = Delta(ref.table, ref.current, e, b)]
    /\ rets' = <<Emit(m, e, b).ret, RefMoves(ref.table, ref.current, e, b)>>
    /\ UNCHANGED <<args, err, stack, last, twin, read, dest, race>>

\* CurrentState() on the machine mach: the machine afterwards and the result.
CurrentStateOf(mach) == [m |-> mach, ret |-> mach.current]

\* The caller calls m.CurrentState(), no Emit call being in progress.
CurrentStateCall ==
    /\ ~m.nil
    /\ stack = <<>>
    /\ m' = CurrentStateOf(m).m
    /\ read' = <<CurrentStateOf(m).ret>>
    /\ UNCHANGED <<args, err, stack, last, twin, rets, dest, ref, race>>

\* The goroutines that call Emit on one machine with no synchronization.
Goroutines == {1, 2}

\* No goroutine has called Emit.
NoRace == [g \in Goroutines |-> [pc |-> "idle"]]

\* The other goroutine.
Other(g) == CHOOSE h \in Goroutines : h # g

\* Goroutine g calls m.Emit(e) and runs it to its return, or to the assignment
\* to m.current: it reads m.current for the lookup, and b is what the callback
\* returns that it invokes. Its call overlaps the other goroutine's when that
\* one has read m.current and has not yet assigned it.
RaceRead(g, e, b) ==
    /\ ~m.nil
    /\ race[g].pc = "idle"
    /\ b \in CallbackResults(InvokedCallback(m, e), e)
    /\ LET t == Type(e)
           ok == HasEntry(m.graph, m.current, t)
           nextState == IF ok THEN Lookup(m.graph, m.current, t) ELSE ZeroInfo
           overlaps == race[Other(g)].pc = "write"
       IN  IF ok /\ (InvokesGuard(nextState) => b)
           THEN race' = [race EXCEPT ![g] = [pc |-> "write", e |-> e, info |-> nextState,
                                             overlaps |-> overlaps]]
           ELSE race' = [race EXCEPT ![g] = [pc |-> "done", e |-> e, ret |-> Reject(m).ret,
                                             overlaps |-> overlaps]]
    /\ UNCHANGED <<args, m, err, stack, last, twin, rets, read, dest, ref>>

\* RaceWrite without the assignment to m.current.
RaceWriteKeeps(g) ==
    /\ race[g].pc = "write"
    /\ race' = [race EXCEPT ![g] = [pc |-> "done", e |-> race[g].e, ret |-> TRUE,
                                    overlaps |-> race[g].overlaps]]
    /\ UNCHANGED <<args, m, err, stack, last, twin, rets, read, dest, ref>>

\* Goroutine g assigns m.current the state it looked up, and returns true.
RaceWrite(g) ==
    /\ race[g].pc = "write"
    /\ LET r == Transfer(m, race[g].info.state)
       IN  /\ m' = r.m
           /\ race' = [race EXCEPT ![g] = [pc |-> "done", e |-> race[g].e, ret |-> r.ret,
                                           overlaps |-> race[g].overlaps]]
    /\ UNCHANGED <<args, err, stack, last, twin, rets, read, dest, ref>>

\* ----------------------------------------------------------- specification
Init ==
    /\ args = <<>>
    /\ m = NilMachine
    /\ err = Nil
    /\ stack = <<>>
    /\ last = NoCall
    /\ twin = NilMachine
    /\ rets = <<>>
    /\ read = <<>>
    /\ dest = <<>>
    /\ ref = NilMachine
    /\ race = NoRace

\* The caller builds a machine, from any list of edges.
ConstructAny ==
    /\ args = <<>>
    /\ \E st \in StateNode, edges \in EdgeLists, ignore \in IgnoreHooks :
           NewFSM(st, edges, ignore)
    /\ UNCHANGED <<twin, rets, read, dest, ref, race>>

\* The caller builds a machine, from a list NewFSM accepts. The table NewFSM
\* builds is a map, the same for every order of the list, so one list stands
\* for each table.
Construct ==
    /\ args = <<>>
    /\ \E st \in StateNode, edges \in TableLists, ignore \in IgnoreHooks :
           NewFSM(st, edges, ignore)
    /\ UNCHANGED <<twin, rets, read, dest, ref, race>>

\* The caller builds two machines, by two calls of NewFSM with the same arguments.
ConstructTwice ==
    /\ args = <<>>
    /\ \E st \in StateNode, edges \in EdgeLists, ignore \in IgnoreHooks :
           /\ NewFSM(st, edges, ignore)
           /\ twin' = NewFSMResult(st, edges, ignore).m
    /\ UNCHANGED <<rets, read, dest, ref, race>>

\* The lists with the edges of the list edges in any order.
Reorderings(edges) ==
    {[i \in 1..Len(edges) |-> edges[p[i]]] :
        p \in {q \in [1..Len(edges) -> 1..Len(edges)] :
                  \A i, j \in 1..Len(edges) : q[i] = q[j] => i = j}}

\* The caller calls NewFSM twice, the second time with the edges of the first
\* list in another order.
ConstructPermuted ==
    /\ args = <<>>
    /\ \E st \in StateNode, edges \in EdgeLists, ignore \in IgnoreHooks :
           \E permuted \in Reorderings(edges) :
               /\ args' = <<[st |-> st, edges |-> edges, ignore |-> ignore],
                            [st |-> st, edges |-> permuted, ignore |-> ignore]>>
               /\ m' = NewFSMResult(st, edges, ignore).m
               /\ err' = NewFSMResult(st, edges, ignore).err
               /\ twin' = NewFSMResult(st, permuted, ignore).m
    /\ UNCHANGED <<stack, last, rets, read, dest, ref, race>>

\* The caller emits an event to both machines, the callbacks answering both
\* calls alike.
BothAlike == \E e \in Event, b \in BOOLEAN : EmitBoth(e, b, b)

\* The caller builds a machine, and the reference machine of the same list if
\* NewFSM accepts it.
ConstructWithRef ==
    /\ args = <<>>
    /\ \E st \in StateNode, edges \in EdgeLists, ignore \in IgnoreHooks :
           /\ NewFSM(st, edges, ignore)
           /\ ref' = IF NewFSMResult(st, edges, ignore).err = Nil
                     THEN RefMachine(st, edges)
                     ELSE NilMachine
    /\ UNCHANGED <<twin, rets, read, dest, race>>

BothRef == \E e \in Event, b \in BOOLEAN : EmitWithRef(e, b)

Both == \E e \in Event, b1 \in BOOLEAN, b2 \in BOOLEAN : EmitBoth(e, b1, b2)

Call == \E e \in Event : EmitCall(e)

Return == \E b \in BOOLEAN : CallbackReturn(b)

Nested == \E e \in Event : Reenter(e)

\* A machine built from any list, and serialized Emit calls on it, as the
\* package asks of its callers.
Next == ConstructAny \/ Call \/ Return \/ CurrentStateCall

Spec == Init /\ [][Next]_vars

\* A machine, and Emit calls on it with callbacks that may call Emit on the
\* machine that called them.
NextReentrant == Construct \/ Call \/ Return \/ Nested

SpecReentrant == Init /\ [][NextReentrant]_vars

\* A machine, and one Emit call by each of two goroutines, with no
\* synchronization between them.
Reads == \E g \in Goroutines, e \in Event, b \in BOOLEAN : RaceRead(g, e, b)

Writes == \E g \in Goroutines : RaceWrite(g)

NextRace == Construct \/ Reads \/ Writes

SpecRace == Init /\ [][NextRace]_vars

\* A machine and the reference machine, and one sequence of events emitted to
\* both.
NextRef == ConstructWithRef \/ BothRef

SpecRef == Init /\ [][NextRef]_vars

\* Two machines built from one list in two orders, and one sequence of events
\* emitted to both.
NextPermuted == ConstructPermuted \/ BothAlike

SpecPermuted == Init /\ [][NextPermuted]_vars

\* Two machines built alike, and one sequence of events emitted to both.
NextTwin == ConstructTwice \/ Both

SpecTwin == Init /\ [][NextTwin]_vars

\* ----------------------------------------------------------------- claims
\* The arguments of the NewFSM call, once it was made.
Built == args # <<>>

Args == args[1]

\* Two entries of the list share their (From, Event) pair.
HasDuplicatePair(edges) ==
    \E i, j \in 1..Len(edges) :
        /\ i < j
        /\ edges[i].From = edges[j].From
        /\ edges[i].Event = edges[j].Event

\* The entries of the list the returned call looked up: the transitions
\* registered for the state it was called in and the type of its event.
EdgesOfLast ==
    {edge \in {Args.edges[i] : i \in 1..Len(Args.edges)} :
        edge.From = last.pre /\ edge.Event = Type(last.e)}

\* The number of times an Emit call that finds no entry invokes the hook.
HookCallsDue == IF Args.ignore # Nil THEN 1 ELSE 0

\* Emit as one step agrees with Emit as the steps before and after its
\* callback, when no call is nested in another.
EmitIsBeginThenReturn ==
    (last.returned /\ ~last.reentered) =>
        LET r == Emit([m EXCEPT !.current = last.pre], last.e, last.cbRet)
        IN  r.ret = last.ret /\ r.m.current = last.post

\* C1: NewFSM returns an error exactly when two entries of the list share
\* their (From, Event) pair, whatever their To and Callback; every other list,
\* the empty one included, is accepted.
C1_ErrorIffDuplicatePair ==
    Built => ((err # Nil) <=> HasDuplicatePair(Args.edges))

C1_Witness ==
    /\ Built
    /\ Len(Args.edges) = 2
    /\ Args.edges[1] = Args.edges[2]
    /\ err = InvalidFsm

\* C2: NewFSM returns a machine and no error, or no machine and an error; the
\* machine it returns is in the initial state passed in until the first Emit.
C2_MachineOrError ==
    Built =>
        /\ m.nil <=> err # Nil
        /\ (~m.nil /\ ~last.returned /\ stack = <<>>) =>
               /\ CurrentState = Args.st
               /\ m.ignore = Args.ignore

C2_Witness ==
    /\ Built
    /\ ~m.nil
    /\ ~last.returned
    /\ stack = <<>>
    /\ Args.edges # <<>>
    /\ \A i \in 1..Len(Args.edges) :
           Args.edges[i].From # Args.st /\ Args.edges[i].To # Args.st
    /\ CurrentState = Args.st

\* C3: an Emit call in state S1 of an event of type E1, (S1, E1 -> S2) being
\* registered with no Callback, returns true and leaves the machine in S2,
\* and invokes neither a guard nor the ignore hook.
C3_UnguardedTransfers ==
    last.returned =>
        \A edge \in EdgesOfLast :
            edge.Callback = Nil =>
                /\ last.ret
                /\ last.post = edge.To
                /\ last.guardCalls = 0
                /\ last.hookCalls = 0
                /\ stack = <<>> => CurrentState = edge.To

C3_Witness ==
    /\ last.returned
    /\ Args.ignore # Nil
    /\ \E edge \in EdgesOfLast : edge.Callback = Nil /\ edge.To # edge.From
    /\ last.ret
    /\ CurrentState # last.pre

\* C4: an Emit call in state S1 of an event of type E1, (S1, E1 -> S2) being
\* registered with a Callback, invokes that Callback once with the event, and
\* returns true exactly when the Callback does: the machine is then in S2.
C4_GuardDecides ==
    last.returned =>
        \A edge \in EdgesOfLast :
            edge.Callback # Nil =>
                /\ last.guardCalls = 1
                /\ last.cbArg = last.e
                /\ last.ret <=> last.cbRet
                /\ last.cbRet => last.post = edge.To
                /\ (last.cbRet /\ stack = <<>>) => CurrentState = edge.To

C4_Witness ==
    /\ last.returned
    /\ \E edge \in EdgesOfLast : edge.Callback # Nil /\ edge.To # edge.From
    /\ last.cbRet
    /\ last.ret
    /\ CurrentState # last.pre

\* C5: an Emit call in state S1 of an event of type E1, (S1, E1 -> S2) being
\* registered with a Callback that returns false, returns false, leaves the
\* machine in S1 and does not invoke the ignore hook.
C5_DeclinedStays ==
    last.returned =>
        \A edge \in EdgesOfLast :
            (edge.Callback # Nil /\ ~last.cbRet) =>
                /\ ~last.ret
                /\ last.post = edge.From
                /\ last.hookCalls = 0
                /\ stack = <<>> => CurrentState = edge.From

C5_Witness ==
    /\ last.returned
    /\ Args.ignore # Nil
    /\ \E edge \in EdgesOfLast : edge.Callback # Nil /\ edge.To # edge.From
    /\ ~last.cbRet
    /\ ~last.ret
    /\ CurrentState = last.pre

\* C6: an Emit call that finds no entry for the current state and the type of
\* its event returns false and leaves the current state as it is; it invokes
\* the ignore hook once, with its event, if there is one, and whatever the
\* hook returns; it invokes no guard.
C6_NoEntryIgnored ==
    (last.returned /\ EdgesOfLast = {}) =>
        /\ ~last.ret
        /\ last.post = last.pre
        /\ last.guardCalls = 0
        /\ last.hookCalls = HookCallsDue
        /\ last.hookCalls = 1 => last.cbArg = last.e
        /\ stack = <<>> => CurrentState = last.pre

C6_Witness ==
    /\ last.returned
    /\ EdgesOfLast = {}
    /\ Args.edges # <<>>
    /\ Args.ignore # Nil
    /\ last.hookCalls = 1
    /\ last.cbRet
    /\ ~last.ret

\* C7 as stated: an Emit call that returns false leaves the current state as it
\* was when the call was made, whatever the callbacks do.
C7_FalseKeepsState ==
    (last.returned /\ ~last.ret) => last.post = last.pre

\* C7, amended: an Emit call that returns false leaves the current state as it
\* was when the call was made, unless the callback it invoked called Emit on
\* the same machine.
C7_FalseKeepsStateUnlessReentered ==
    (last.returned /\ ~last.ret /\ ~last.reentered) => last.post = last.pre

\* A nested call returned false, its guard having declined, in a machine whose
\* callbacks call Emit.
C7_Witness ==
    /\ last.returned
    /\ ~last.ret
    /\ ~last.reentered
    /\ last.guardCalls = 1
    /\ stack # <<>>
    /\ last.post = last.pre

\* C8: NewFSM accepts a list with a transition (S1, E1 -> S1), and an Emit call
\* in S1 of an event of type E1 that its guard, if any, allows returns true,
\* leaves the machine in S1 and does not invoke the ignore hook; a call that
\* finds no entry returns false, so that the result tells the two apart.
C8_SelfLoopTransfers ==
    /\ (Built /\ ~HasDuplicatePair(Args.edges)) => ~m.nil
    /\ last.returned =>
           /\ \A edge \in EdgesOfLast :
                  (edge.To = edge.From /\ (edge.Callback = Nil \/ last.cbRet)) =>
                      /\ last.ret
                      /\ last.post = last.pre
                      /\ last.hookCalls = 0
                      /\ stack = <<>> => CurrentState = edge.From
           /\ EdgesOfLast = {} => ~last.ret

C8_Witness ==
    /\ last.returned
    /\ Args.ignore # Nil
    /\ \E edge \in EdgesOfLast : edge.To = edge.From /\ edge.Callback = Nil
    /\ last.ret
    /\ last.hookCalls = 0
    /\ CurrentState = last.pre

\* C9: a machine built from the empty list is in its initial state at every
\* moment, and every Emit call on it returns false, having invoked the ignore
\* hook once if there is one.
C9_EmptyTableStays ==
    (Built /\ Args.edges = <<>>) =>
        /\ ~m.nil
        /\ CurrentState = Args.st
        /\ last.returned =>
               /\ ~last.ret
               /\ last.pre = Args.st
               /\ last.post = Args.st
               /\ last.guardCalls = 0
               /\ last.hookCalls = HookCallsDue

C9_Witness ==
    /\ Built
    /\ Args.edges = <<>>
    /\ Args.ignore # Nil
    /\ last.returned
    /\ last.hookCalls = 1
    /\ ~last.ret
    /\ CurrentState = Args.st

\* Every guard of the list decides from the event alone.
GuardsPure(edges) == \A i \in 1..Len(edges) : edges[i].Callback \in {Nil, Pure}

\* C10: two machines built by NewFSM from the same arguments, the guards being
\* pure, and fed the same events give the same result at every Emit call and
\* are in the same state after it.
C10_Determinism ==
    (Built /\ ~m.nil /\ GuardsPure(Args.edges)) =>
        /\ ~twin.nil
        /\ twin.current = m.current
        /\ rets # <<>> => rets[1] = rets[2]

\* Both machines have moved, on the answer of a pure guard, and their ignore
\* hook is no pure function.
C10_Witness ==
    /\ Built
    /\ ~m.nil
    /\ GuardsPure(Args.edges)
    /\ \E i \in 1..Len(Args.edges) : Args.edges[i].Callback = Pure
    /\ Args.ignore = Impure
    /\ rets = <<TRUE, TRUE>>
    /\ m.current # Args.st
    /\ twin.current = m.current

\* The machine NewFSM returned, as it was when NewFSM returned it.
MachineBuilt == NewFSMResult(Args.st, Args.edges, Args.ignore).m

\* C11: the table and the ignore hook of a machine are at every moment those
\* NewFSM gave it: Emit calls, whatever their outcome, and CurrentState()
\* calls change no field but current, and CurrentState() not even that.
C11_OnlyCurrentChanges ==
    (Built /\ ~m.nil) =>
        /\ [m EXCEPT !.current = Args.st] = MachineBuilt
        /\ read # <<>> => read[1] = CurrentState

\* An Emit call looked up a state that is no key of the table, and
\* CurrentState() was called after it.
C11_Witness ==
    /\ last.returned
    /\ last.pre \notin DOMAIN m.graph
    /\ m.graph # EmptyMap
    /\ ~last.ret
    /\ read # <<>>
    /\ [m EXCEPT !.current = Args.st] = MachineBuilt

\* The state CurrentState() is to return: the destination of the latest Emit
\* call that returned true, the initial state if none did.
LatestDestination == IF dest = <<>> THEN Args.st ELSE dest[1]

\* C12: between Emit calls the current state is the destination of the latest
\* Emit call that returned true, or the initial state if none has, and every
\* CurrentState() call made since the latest Emit call returned that state.
C12_LatestDestination ==
    (Built /\ ~m.nil /\ stack = <<>>) =>
        /\ CurrentState = LatestDestination
        /\ read # <<>> => read[1] = LatestDestination

\* An Emit call returned true, a later one returned false, and CurrentState()
\* returns the destination of the first, which is not the initial state.
C12_Witness ==
    /\ last.returned
    /\ ~last.ret
    /\ dest # <<>>
    /\ dest[1] # Args.st
    /\ read = dest

\* The results and the final state of the call Emit(e1) followed by the call
\* Emit(e2) on the machine mach, for every answer the callbacks may give.
SerialRuns(mach, e1, e2) ==
    {<<Emit(mach, e1, b1).ret,
       Emit(Emit(mach, e1, b1).m, e2, b2).ret,
       Emit(Emit(mach, e1, b1).m, e2, b2).m.current>> :
        <<b1, b2>> \in {bb \in BOOLEAN \X BOOLEAN :
            /\ bb[1] \in CallbackResults(InvokedCallback(mach, e1), e1)
            /\ bb[2] \in CallbackResults(
                             InvokedCallback(Emit(mach, e1, bb[1]).m, e2), e2)}}

\* Both goroutines' calls have returned.
RaceDone == \A g \in Goroutines : race[g].pc = "done"

\* The result of goroutine 1, the result of goroutine 2 and the final state.
RaceOutcome == <<race[1].ret, race[2].ret, m.current>>

\* What the two calls give in one of the two serial orders.
RaceOutcomeIsSerial ==
    \/ RaceOutcome \in SerialRuns(MachineBuilt, race[1].e, race[2].e)
    \/ <<RaceOutcome[2], RaceOutcome[1], RaceOutcome[3]>>
           \in SerialRuns(MachineBuilt, race[2].e, race[1].e)

\* C13: two Emit calls of two goroutines on one machine give results and a
\* final state that no serial order of the two gives only when they race:
\* when one read the current state after the other read it and before the
\* other assigned it. (That such a run exists is C13_Witness.)
C13_UnserialOnlyByRace ==
    RaceDone => (RaceOutcomeIsSerial \/ \E g \in Goroutines : race[g].overlaps)

\* Both calls have returned, with results and a final state that neither
\* serial order gives.
C13_Witness ==
    /\ RaceDone
    /\ ~RaceOutcomeIsSerial

\* C14: an Emit call invokes at most one callback: the guard of the entry
\* registered for the state it was called in and the type of its event, when
\* that entry has one, the ignore hook when there is no such entry and there
\* is a hook, and none otherwise; never a guard and the hook, and never the
\* guard of another entry.
C14_AtMostOneCallback ==
    last.returned =>
        /\ last.guardCalls + last.hookCalls <= 1
        /\ last.guardCalls = 1 =>
               \E edge \in EdgesOfLast : edge.Callback # Nil /\ edge.Callback = last.cb
        /\ last.hookCalls = 1 =>
               EdgesOfLast = {} /\ Args.ignore # Nil /\ last.cb = Args.ignore
        /\ last.guardCalls + last.hookCalls = 0 =>
               /\ last.cb = Nil
               /\ \/ \E edge \in EdgesOfLast : edge.Callback = Nil
                  \/ EdgesOfLast = {} /\ Args.ignore = Nil

\* An Emit call invoked the pure guard of its entry, in a machine that has
\* an ignore hook and an impure guard on another entry.
C14_Witness ==
    /\ last.returned
    /\ last.guardCalls = 1
    /\ last.hookCalls = 0
    /\ last.cb = Pure
    /\ Args.ignore # Nil
    /\ \E i \in 1..Len(Args.edges) : Args.edges[i].Callback = Impure

\* C15: the machine of NewFSM, with its map of maps, and the reference machine,
\* with its one map keyed by (State, EventType) pairs and its step delta, built
\* from the same accepted list and initial state and fed the same events, give
\* the same result at every call and are in the same state after it.
C15_SameAsReference ==
    (Built /\ ~m.nil) =>
        /\ ~ref.nil
        /\ ref.current = m.current
        /\ rets # <<>> => rets[1] = rets[2]

\* Both machines moved from a state with two entries, on the entry for the
\* second event type, to a state other than the initial one.
C15_Witness ==
    /\ Built
    /\ ~m.nil
    /\ Len(Args.edges) = 2
    /\ Args.edges[1].From = Args.st
    /\ Args.edges[2].From = Args.st
    /\ rets = <<TRUE, TRUE>>
    /\ m.current # Args.st
    /\ ref.current = m.current

\* The list given to NewFSM registers the entry (s, t) -> to.
Registered(s, t, to) ==
    \E i \in 1..Len(Args.edges) :
        /\ Args.edges[i].From = s
        /\ Args.edges[i].Event = t
        /\ Args.edges[i].To = to

\* A step of the machine that writes a new value to the current state.
CurrentWritten == ~m.nil /\ ~m'.nil /\ m'.current # m.current

\* C16 as stated: every write that changes the current state from s to s'
\* during Emit(e) has a registered entry (s, e.Type()) -> s', s being the
\* current state immediately before the write, also when the guard has
\* emitted events to the same machine.
C16_WriteFollowsEntryOfStateBefore ==
    [][CurrentWritten => Registered(m.current, Type(last'.e), m'.current)]_vars

\* C16: every write that changes the current state during Emit(e) is made by
\* a call that returns true and writes the To of the entry registered for
\* (p, e.Type()), p being the current state when the call looked the entry
\* up; p is the current state immediately before the write if the guard has
\* not emitted an event to the same machine.
C16_WriteFollowsEntryOfStateAtLookup ==
    [][CurrentWritten =>
          /\ last'.returned
          /\ last'.ret
          /\ Registered(last'.pre, Type(last'.e), m'.current)
          /\ ~last'.reentered => last'.pre = m.current]_vars

\* A call whose guard emitted an event to the same machine has returned true,
\* and its write has left the machine in a state other than the one it was in
\* when the call began.
C16_Witness ==
    /\ last.returned
    /\ last.ret
    /\ last.reentered
    /\ last.guardCalls = 1
    /\ m.current # last.pre
    /\ Registered(last.pre, Type(last.e), m.current)

\* The states the registered edges lead to in one step from a state of S.
Successors(S) ==
    {to \in StateNode : \E s \in S, t \in EventType : Registered(s, t, to)}

\* The states reachable from the states of S along registered edges.
RECURSIVE ReachableFrom(_)
ReachableFrom(S) ==
    IF Successors(S) \subseteq S THEN S ELSE ReachableFrom(S \cup Successors(S))

\* C17: with serialized Emit calls the current state is the initial state or
\* the To of a registered transition, and is reachable from the initial state
\* along registered edges.
C17_CurrentReachable ==
    (Built /\ ~m.nil) =>
        /\ CurrentState \in ReachableFrom({Args.st})
        /\ \/ CurrentState = Args.st
           \/ \E s \in StateNode, t \in EventType : Registered(s, t, CurrentState)

\* The machine has left the initial state and come back to it along two
\* registered edges.
C17_Witness ==
    /\ Built
    /\ last.returned
    /\ last.ret
    /\ last.pre # Args.st
    /\ CurrentState = Args.st
    /\ stack = <<>>

\* C18: for a list and any permutation of it, NewFSM fails on both or succeeds
\* on both, and the two machines, fed the same events with callbacks that
\* answer both alike, give the same result at every Emit call and are in the
\* same state after it.
C18_OrderIndependent ==
    Len(args) = 2 =>
        /\ m.nil <=> twin.nil
        /\ ~m.nil =>
               /\ twin.graph = m.graph
               /\ twin.current = m.current
               /\ rets # <<>> => rets[1] = rets[2]

\* Two machines built from two edges of one state given in the two orders have
\* both moved on the edge that comes second in the first list.
C18_Witness ==
    /\ Len(args) = 2
    /\ Len(args[1].edges) = 2
    /\ args[2].edges # args[1].edges
    /\ args[1].edges[1].From = args[1].st
    /\ args[1].edges[2].From = args[1].st
    /\ ~m.nil
    /\ rets = <<TRUE, TRUE>>
    /\ m.current = args[1].edges[2].To
    /\ m.current # args[1].edges[1].To
    /\ twin.current = m.current

\* The list given to NewFSM has no edge from the state s.
NoOutgoing(s) == \A t \in EventType, to \in StateNode : ~Registered(s, t, to)

\* C19: once the current state is a state with no outgoing registered
\* transition, no step changes it, and every Emit call that returns has
\* returned false, after invoking the ignore hook if there is one and no guard.
C19_Absorbing ==
    [][(Built /\ ~m.nil /\ NoOutgoing(m.current)) =>
          /\ ~m'.nil
          /\ m'.current = m.current
          /\ last' # last =>
                 /\ last'.returned
                 /\ last'.pre = m.current
                 /\ ~last'.ret
                 /\ last'.post = m.current
                 /\ last'.guardCalls = 0
                 /\ last'.hookCalls = HookCallsDue]_vars

\* The machine has moved to a state with no outgoing transition, which is not
\* the initial state, and an Emit call made in that state has invoked the
\* ignore hook and returned false.
C19_Witness ==
    /\ Built
    /\ ~m.nil
    /\ NoOutgoing(m.current)
    /\ m.current # Args.st
    /\ last.returned
    /\ last.pre = m.current
    /\ ~last.ret
    /\ last.hookCalls = 1

====
